---- MODULE Spec2Model ----
(***************************************************************************)
(* FreightChess: the nibble-packed chess board of src/src/main.rs, its     *)
(* coordinate validation, get/set/make_move/is_done, its Display           *)
(* rendering and the interactive prompt loop play_chess.                   *)
(*                                                                         *)
(* A board is the field board: [[u8; 4]; 8], modelled as a function        *)
(* 0..7 -> 0..3 -> 0..255 with the indexes of the code.  A coordinate is   *)
(* the byte slice the code receives (&[u8]), modelled as a sequence of     *)
(* numbers 0..255.  Every operation returns a record whose result is       *)
(* "Ok", the name of the ChessErr variant it returns, or "Panic" when the  *)
(* call unwinds (todo!(), an index out of bounds, an arithmetic overflow   *)
(* of the debug profile the tests of tests/main.rs run).                   *)
(***************************************************************************)
EXTENDS Integers, Sequences, FiniteSets, TLC

VARIABLES board, moves, pc, calls, op

vars == <<board, moves, pc, calls, op>>

(***************************************************************************)
(* u8 arithmetic                                                           *)
(***************************************************************************)
U8 == 256

RECURSIVE AndBits(_, _, _)
AndBits(x, y, n) ==
    IF n = 0 THEN 0
    ELSE (x % 2) * (y % 2) + 2 * AndBits(x \div 2, y \div 2, n - 1)

RECURSIVE OrBits(_, _, _)
OrBits(x, y, n) ==
    IF n = 0 THEN 0
    ELSE ((x % 2) + (y % 2) - (x % 2) * (y % 2)) + 2 * OrBits(x \div 2, y \div 2, n - 1)

\* x & y on bytes, tabulated once.
AndTable == [x \in 0..(U8 - 1) |-> [y \in 0..(U8 - 1) |-> AndBits(x, y, 8)]]

BitAnd(x, y) == AndTable[x][y]

BitOr(x, y) == OrBits(x, y, 8)

\* !x on a byte
BitNot(x) == (U8 - 1) - x

\* x << k on a byte: the bits shifted out are dropped
Shl(x, k) == (x * (2 ^ k)) % U8

Shr(x, k) == x \div (2 ^ k)

\* b as u8
AsU8(b) == IF b THEN 1 ELSE 0

(***************************************************************************)
(* The constants and the bit helpers of main.rs, lines 8-51                *)
(***************************************************************************)
\* index 0..15: blank, white pawn, knight, rook, bishop, U+2654, U+2655, blank,
\* blank, black pawn, knight, rook, bishop, U+265B, U+265A, blank
CHESS_PIECES ==
    << 32, 9817, 9816, 9814, 9815, 9812, 9813, 32,
       32, 9823, 9822, 9820, 9821, 9819, 9818, 32 >>

EMPTY == 0
PAWN == 1
KNIGHT == 2
ROOK == 3
BISHOP == 4
QUEEN == 5
KING == 6

WHITE == 0
BLACK == 8

LEFT_MASK == 240
RIGHT_MASK == 15

GET_LEFT(s) == Shr(BitAnd(s, LEFT_MASK), 4)
GET_RIGHT(s) == BitAnd(s, RIGHT_MASK)

GET_NUM(s) == BitAnd(s, 7)
GET_COLOR(s) == Shr(BitAnd(s, BLACK), 3)

SET_BLACK(s) == (BitOr(s, BLACK) * AsU8(s # EMPTY)) % U8
SET_WHITE(s) == BitAnd(s, BitNot(BLACK))

SET_CELL_PAIR(left, right) == (Shl(left, 4) + right) % U8

SET_LEFT_clobber(pair, left) == SET_CELL_PAIR(left, 0)

SET_LEFT(pair, left) == SET_CELL_PAIR(left, GET_RIGHT(pair))
SET_RIGHT(pair, right) == SET_CELL_PAIR(GET_LEFT(pair), right)

\* side TRUE: the right piece, FALSE: the left piece
GET_CELL_BOOLEAN(pair, side) ==
    (GET_RIGHT(pair) * AsU8(side) + GET_LEFT(pair) * AsU8(~side)) % U8

SET_CELL_BOOLEAN(pair, side, piece) ==
    (SET_RIGHT(pair, piece) * AsU8(side) + SET_LEFT(pair, piece) * AsU8(~side)) % U8

(***************************************************************************)
(* ChessBoard                                                              *)
(***************************************************************************)
\* a row literal [b0, b1, b2, b3] of the code, indexed 0..3
Row(t) == [c \in 0..3 |-> t[c + 1]]

new_swapped ==
    [r \in 0..7 |->
        CASE r = 0 -> Row(<< SET_CELL_PAIR(SET_WHITE(ROOK), SET_WHITE(KNIGHT)),
                             SET_CELL_PAIR(SET_WHITE(BISHOP), SET_WHITE(KING)),
                             SET_CELL_PAIR(SET_WHITE(QUEEN), SET_WHITE(BISHOP)),
                             SET_CELL_PAIR(SET_WHITE(KNIGHT), SET_WHITE(ROOK)) >>)
          [] r = 1 -> Row(<< SET_CELL_PAIR(SET_WHITE(PAWN), SET_WHITE(PAWN)),
                             SET_CELL_PAIR(SET_WHITE(PAWN), SET_WHITE(PAWN)),
                             SET_CELL_PAIR(SET_WHITE(PAWN), SET_WHITE(PAWN)),
                             SET_CELL_PAIR(SET_WHITE(PAWN), SET_WHITE(PAWN)) >>)
          [] r = 6 -> Row(<< SET_CELL_PAIR(SET_BLACK(PAWN), SET_BLACK(PAWN)),
                             SET_CELL_PAIR(SET_BLACK(PAWN), SET_BLACK(PAWN)),
                             SET_CELL_PAIR(SET_BLACK(PAWN), SET_BLACK(PAWN)),
                             SET_CELL_PAIR(SET_BLACK(PAWN), SET_BLACK(PAWN)) >>)
          [] r = 7 -> Row(<< SET_CELL_PAIR(SET_BLACK(ROOK), SET_BLACK(KNIGHT)),
                             SET_CELL_PAIR(SET_BLACK(BISHOP), SET_BLACK(QUEEN)),
                             SET_CELL_PAIR(SET_BLACK(KING), SET_BLACK(BISHOP)),
                             SET_CELL_PAIR(SET_BLACK(KNIGHT), SET_BLACK(ROOK)) >>)
          [] OTHER -> Row(<< 0, 0, 0, 0 >>)]

\* ChessBoard::new(): the board field (the moves field is 0)
new ==
    [r \in 0..7 |->
        CASE r = 0 -> Row(<< SET_CELL_PAIR(SET_WHITE(ROOK), SET_WHITE(KNIGHT)),
                             SET_CELL_PAIR(SET_WHITE(BISHOP), SET_WHITE(QUEEN)),
                             SET_CELL_PAIR(SET_WHITE(KING), SET_WHITE(BISHOP)),
                             SET_CELL_PAIR(SET_WHITE(KNIGHT), SET_WHITE(ROOK)) >>)
          [] r = 1 -> Row(<< SET_CELL_PAIR(SET_WHITE(PAWN), SET_WHITE(PAWN)),
                             SET_CELL_PAIR(SET_WHITE(PAWN), SET_WHITE(PAWN)),
                             SET_CELL_PAIR(SET_WHITE(PAWN), SET_WHITE(PAWN)),
                             SET_CELL_PAIR(SET_WHITE(PAWN), SET_WHITE(PAWN)) >>)
          [] r = 6 -> Row(<< SET_CELL_PAIR(SET_BLACK(PAWN), SET_BLACK(PAWN)),
                             SET_CELL_PAIR(SET_BLACK(PAWN), SET_BLACK(PAWN)),
                             SET_CELL_PAIR(SET_BLACK(PAWN), SET_BLACK(PAWN)),
                             SET_CELL_PAIR(SET_BLACK(PAWN), SET_BLACK(PAWN)) >>)
          [] r = 7 -> Row(<< SET_CELL_PAIR(SET_BLACK(ROOK), SET_BLACK(KNIGHT)),
                             SET_CELL_PAIR(SET_BLACK(BISHOP), SET_BLACK(QUEEN)),
                             SET_CELL_PAIR(SET_BLACK(KING), SET_BLACK(BISHOP)),
                             SET_CELL_PAIR(SET_BLACK(KNIGHT), SET_BLACK(ROOK)) >>)
          [] OTHER -> Row(<< 0, 0, 0, 0 >>)]

new_moves == 0

is_valid_piece_rank0(coord) ==
    ~(  (Len(coord) # 2)
     \/ (BitAnd(coord[1], 240) # 96)
     \/ ~(BitAnd(coord[1], 15) \in 1..8)
     \/ ~(BitAnd(coord[2], 15) \in 0..8)
     \/ (BitAnd(coord[2], 240) # 48))

\* || evaluates left to right and stops at the first true operand, so
\* coord[0] and coord[1] are read only when coord.len() = 2
is_valid_piece(coord) ==
    ~(  (Len(coord) # 2)
     \/ (BitAnd(coord[1], 240) # 96)
     \/ ~(BitAnd(coord[1], 15) \in 1..8)
     \/ ~(BitAnd(coord[2], 15) \in 1..8)
     \/ (BitAnd(coord[2], 240) # 48))

\* The indexes the code computes for self.board[..][..] and the side flag.
\* x - 1 on u8 overflows for x = 0: the index is then -1, out of bounds.
RowOf(coord) == BitAnd(coord[2], 15) - 1
ColOf(coord) ==
    IF coord[1] = 0 THEN -1 ELSE Shr(BitAnd(coord[1] - 1, 6), 1)
SideOf(coord) ==
    IF coord[1] = 0 THEN FALSE ELSE BitAnd(coord[1] - 1, 1) # 0

\* whether indexing self.board with the computed indexes stays in bounds
InBounds(coord) == RowOf(coord) \in 0..7 /\ ColOf(coord) \in 0..3

get_piece_at_bytes(b, coord) ==
    IF ~is_valid_piece(coord)
    THEN [result |-> "InvalidIndexing", value |-> 0]
    ELSE IF ~InBounds(coord)
    THEN [result |-> "Panic", value |-> 0]
    ELSE [result |-> "Ok",
          value |-> GET_CELL_BOOLEAN(b[RowOf(coord)][ColOf(coord)], SideOf(coord))]

set_piece_at_bytes(b, coord, piece) ==
    IF ~is_valid_piece(coord)
    THEN [result |-> "InvalidIndexing", board |-> b]
    ELSE IF ~InBounds(coord)
    THEN [result |-> "Panic", board |-> b]
    ELSE [result |-> "Ok",
          board |-> [b EXCEPT ![RowOf(coord)][ColOf(coord)] =
                        SET_CELL_BOOLEAN(b[RowOf(coord)][ColOf(coord)],
                                         SideOf(coord), piece)]]

\* get, then set, then todo!(): the ? operator returns the first error, and
\* a call that passes both ends in the panic of todo!() after the write
make_move(b, m, move_from, move_to) ==
    LET g == get_piece_at_bytes(b, move_from) IN
    IF g.result # "Ok"
    THEN [result |-> g.result, board |-> b, moves |-> m]
    ELSE LET s == set_piece_at_bytes(b, move_to, g.value) IN
         IF s.result # "Ok"
         THEN [result |-> s.result, board |-> s.board, moves |-> m]
         ELSE [result |-> "Panic", board |-> s.board, moves |-> m]

is_done(b) == FALSE

\* impl Display: line i is "|c|c|c|c|c|c|c|c|\n" read from board[7 - i]
fmt_line(b, i) ==
    << 124, CHESS_PIECES[GET_LEFT(b[7 - i][0]) + 1],
       124, CHESS_PIECES[GET_RIGHT(b[7 - i][0]) + 1],
       124, CHESS_PIECES[GET_LEFT(b[7 - i][1]) + 1],
       124, CHESS_PIECES[GET_RIGHT(b[7 - i][1]) + 1],
       124, CHESS_PIECES[GET_LEFT(b[7 - i][2]) + 1],
       124, CHESS_PIECES[GET_RIGHT(b[7 - i][2]) + 1],
       124, CHESS_PIECES[GET_LEFT(b[7 - i][3]) + 1],
       124, CHESS_PIECES[GET_RIGHT(b[7 - i][3]) + 1],
       124, 10 >>

fmt(b) == [i \in 0..7 |-> fmt_line(b, i)]

(***************************************************************************)
(* play_chess: one line of the prompt                                      *)
(***************************************************************************)
W_help == << 104, 101, 108, 112 >>
W_exit == << 101, 120, 105, 116 >>
W_quit == << 113, 117, 105, 116 >>
W_move == << 109, 111, 118, 101 >>
Arrow == << 45, 62 >>

\* the ASCII characters char::is_whitespace accepts
IsWhitespace(c) == c \in {9, 10, 11, 12, 13, 32}

RECURSIVE trim_start(_)
trim_start(s) ==
    IF s # << >> /\ IsWhitespace(Head(s)) THEN trim_start(Tail(s)) ELSE s

RECURSIVE trim_end(_)
trim_end(s) ==
    IF s # << >> /\ IsWhitespace(s[Len(s)])
    THEN trim_end(SubSeq(s, 1, Len(s) - 1)) ELSE s

trim(s) == trim_end(trim_start(s))

RECURSIVE split_ws(_, _, _)
split_ws(s, cur, acc) ==
    IF s = << >> THEN (IF cur = << >> THEN acc ELSE Append(acc, cur))
    ELSE IF IsWhitespace(Head(s))
    THEN split_ws(Tail(s), << >>, IF cur = << >> THEN acc ELSE Append(acc, cur))
    ELSE split_ws(Tail(s), Append(cur, Head(s)), acc)

split_whitespace(s) == split_ws(s, << >>, << >>)

RECURSIVE find_arrow(_, _)
find_arrow(s, i) ==
    IF i + 1 > Len(s) THEN 0
    ELSE IF SubSeq(s, i, i + 1) = Arrow THEN i
    ELSE find_arrow(s, i + 1)

\* str::split_once("->"): the text before and after the first "->"
split_once(s) ==
    LET i == find_arrow(s, 1) IN
    IF i = 0 THEN [some |-> FALSE, from |-> << >>, to |-> << >>]
    ELSE [some |-> TRUE, from |-> SubSeq(s, 1, i - 1),
          to |-> SubSeq(s, i + 2, Len(s))]

\* One pass of the while loop of play_chess on the line read.  The result
\* is "Continue" (the loop goes round), "Done" (the loop condition ended
\* it), "Quit" (return Ok), the ChessErr returned, or "Panic".
play_chess_step(b, m, line) ==
    IF is_done(b) THEN [result |-> "Done", board |-> b, moves |-> m]
    ELSE LET t == trim(line) IN
    IF t = W_help THEN [result |-> "Continue", board |-> b, moves |-> m]
    ELSE IF t = W_exit \/ t = W_quit
    THEN [result |-> "Quit", board |-> b, moves |-> m]
    ELSE LET commands == split_whitespace(t) IN
    IF Len(commands) # 2
    THEN [result |-> "IllegalCommand", board |-> b, moves |-> m]
    ELSE IF commands[1] = W_move
    THEN LET so == split_once(commands[2]) IN
         IF so.some
         THEN LET r == make_move(b, m, so.from, so.to) IN
              [result |-> IF r.result = "Ok" THEN "Continue" ELSE r.result,
               board |-> r.board, moves |-> r.moves]
         ELSE [result |-> "IllegalCommand", board |-> b, moves |-> m]
    ELSE [result |-> "Continue", board |-> b, moves |-> m]

\* where play_chess and main are after a pass with this result
pc_after(result) ==
    CASE result = "Continue" -> "prompt"
      [] result \in {"Quit", "Done"} -> "returned_ok"
      [] result = "Panic" -> "panicked"
      [] OTHER -> "returned_err"

(***************************************************************************)
(* Inputs                                                                  *)
(***************************************************************************)
MaxCalls == 2
MaxCoordLen == 3

\* the coordinate the test builds as [96 + i, 48 + j]
Sq(file, rank) == << 96 + file, 48 + rank >>

AllSquares == {Sq(f, r) : f \in 1..8, r \in 1..8}

Pieces == 0..15

\* a1, b1 (one storage byte), e2, e4; i1, a9, and a one-byte slice
ClientCoords ==
    {Sq(1, 1), Sq(2, 1), Sq(5, 2), Sq(5, 4), Sq(9, 1), Sq(1, 9), << 97 >>}

\* e2, e4, a1, h8, and the invalid coordinates of test_get_piece_at
\* ("ab", "12", "i1", "a9", "a0"), a one-byte and an empty slice
PromptCoords ==
    {Sq(5, 2), Sq(5, 4), Sq(1, 1), Sq(8, 8),
     << 97, 98 >>, << 49, 50 >>, Sq(9, 1), Sq(1, 9), Sq(1, 0), << 97 >>, << >>}

MoveLine(from, to) == W_move \o << 32 >> \o from \o Arrow \o to \o << 10 >>

\* what read_line leaves in buff: "help", "quit", "exit", an empty line,
\* end of input, " help ", "look a1", "move e2e4", "move", "move e2 -> e4",
\* and "move <from>-><to>"
PromptLines ==
    { W_help \o << 10 >>, W_quit \o << 10 >>, W_exit \o << 10 >>,
      << 10 >>, << >>,
      << 32 >> \o W_help \o << 32, 10 >>,
      << 108, 111, 111, 107, 32, 97, 49, 10 >>,
      W_move \o << 32, 101, 50, 101, 52, 10 >>,
      W_move \o << 10 >>,
      W_move \o << 32, 101, 50, 32, 45, 62, 32, 101, 52, 10 >> }
    \cup {MoveLine(f, t) : f \in PromptCoords, t \in PromptCoords}

(***************************************************************************)
(* State machine                                                           *)
(***************************************************************************)
\* the last call: its name, its arguments, and what it returned
OpRec(name, a, b, piece, result, value, done, text) ==
    [name |-> name, a |-> a, b |-> b, piece |-> piece, result |-> result,
     value |-> value, done |-> done, text |-> text]

NewRec == OpRec("new", << >>, << >>, 0, "Ok", 0, FALSE, << >>)

\* after ChessBoard::new(): held by a caller of the methods ("client", as
\* the tests are) or by play_chess at the head of its loop ("prompt")
Init ==
    /\ board = new
    /\ moves = new_moves
    /\ pc \in {"client", "prompt"}
    /\ calls = 0
    /\ op = NewRec

New ==
    /\ pc = "client"
    /\ calls > 0
    /\ board' = new
    /\ moves' = new_moves
    /\ calls' = 0
    /\ op' = NewRec
    /\ UNCHANGED pc

Get(coord) ==
    /\ pc = "client"
    /\ calls < MaxCalls
    /\ LET g == get_piece_at_bytes(board, coord) IN
       /\ op' = OpRec("get", coord, << >>, 0, g.result, g.value, FALSE, << >>)
       /\ pc' = IF g.result = "Panic" THEN "panicked" ELSE pc
    /\ calls' = calls + 1
    /\ UNCHANGED <<board, moves>>

Set(coord, piece) ==
    /\ pc = "client"
    /\ calls < MaxCalls
    /\ LET s == set_piece_at_bytes(board, coord, piece) IN
       /\ board' = s.board
       /\ op' = OpRec("set", coord, << >>, piece, s.result, 0, FALSE, << >>)
       /\ pc' = IF s.result = "Panic" THEN "panicked" ELSE pc
    /\ calls' = calls + 1
    /\ UNCHANGED moves

MakeMove(from, to) ==
    /\ pc = "client"
    /\ calls < MaxCalls
    /\ LET r == make_move(board, moves, from, to) IN
       /\ board' = r.board
       /\ moves' = r.moves
       /\ op' = OpRec("make_move", from, to, 0, r.result, 0, FALSE, << >>)
       /\ pc' = IF r.result = "Panic" THEN "panicked" ELSE pc
    /\ calls' = calls + 1

IsDone ==
    /\ pc = "client"
    /\ calls < MaxCalls
    /\ op' = OpRec("is_done", << >>, << >>, 0, "Ok", 0, is_done(board), << >>)
    /\ calls' = calls + 1
    /\ UNCHANGED <<board, moves, pc>>

Fmt ==
    /\ pc = "client"
    /\ calls < MaxCalls
    /\ op' = OpRec("fmt", << >>, << >>, 0, "Ok", 0, FALSE, fmt(board))
    /\ calls' = calls + 1
    /\ UNCHANGED <<board, moves, pc>>

\* the prompt prints the board, reads a line and handles it
Command(line) ==
    /\ pc = "prompt"
    /\ LET r == play_chess_step(board, moves, line) IN
       /\ board' = r.board
       /\ moves' = r.moves
       /\ op' = OpRec("command", line, << >>, 0, r.result, 0, is_done(board),
                      fmt(board))
       /\ pc' = pc_after(r.result)
    /\ UNCHANGED calls

Next ==
    \/ New
    \/ \E coord \in ClientCoords : Get(coord)
    \/ \E coord \in ClientCoords, piece \in Pieces : Set(coord, piece)
    \/ \E from \in ClientCoords, to \in ClientCoords : MakeMove(from, to)
    \/ IsDone
    \/ Fmt
    \/ \E line \in PromptLines : Command(line)

Spec == Init /\ [][Next]_vars

(***************************************************************************)
(* Coordinate validation over every two-byte slice: each probe is made on  *)
(* a fresh board, as test_get_piece_at makes it.                           *)
(***************************************************************************)
SampleBytes == {0, 49, 97, 255}

AllCoords ==
    {<< x, y >> : x \in 0..(U8 - 1), y \in 0..(U8 - 1)}
    \cup UNION {[1..n -> SampleBytes] : n \in (0..MaxCoordLen) \ {2}}

ProbePieces == {SET_BLACK(KING)}

InitCoord == Init /\ pc = "client"

ProbeGet == calls = 0 /\ \E coord \in AllCoords : Get(coord)

ProbeSet ==
    calls = 0 /\ \E coord \in AllCoords, piece \in ProbePieces : Set(coord, piece)

NextCoord == New \/ ProbeGet \/ ProbeSet

SpecCoord == InitCoord /\ [][NextCoord]_vars

(***************************************************************************)
(* set_piece_at_bytes over every square and every four-bit piece, on the   *)
(* boards one earlier write away from a new board.                         *)
(***************************************************************************)
\* a1, b1 (one storage byte), h8
SeedSquares == {Sq(1, 1), Sq(2, 1), Sq(8, 8)}

InitSet ==
    /\ moves = new_moves
    /\ pc = "client"
    /\ calls = 0
    /\ \E coord \in SeedSquares, piece \in Pieces :
          LET s == set_piece_at_bytes(new, coord, piece) IN
          /\ board = s.board
          /\ op = OpRec("set", coord, << >>, piece, s.result, 0, FALSE, << >>)

NextSet ==
    calls = 0 /\ \E coord \in AllSquares \cup {Sq(9, 1), Sq(1, 9)}, piece \in Pieces :
                    Set(coord, piece)

SpecSet == InitSet /\ [][NextSet]_vars

(***************************************************************************)
(* is_done over the positions of the fool's mate 1. f3 e5 2. g4 Qh4#, each *)
(* written on a new board with set_piece_at_bytes.                         *)
(***************************************************************************)
\* the piece of `from` written to `to`, EMPTY written to `from`
Ply(b, from, to) ==
    set_piece_at_bytes(
        set_piece_at_bytes(b, to, get_piece_at_bytes(b, from).value).board,
        from, EMPTY).board

FoolsMatePlies ==
    << << Sq(6, 2), Sq(6, 3) >>, << Sq(5, 7), Sq(5, 5) >>,
       << Sq(7, 2), Sq(7, 4) >>, << Sq(4, 8), Sq(8, 4) >> >>

RECURSIVE AfterPlies(_)
AfterPlies(n) ==
    IF n = 0 THEN new
    ELSE Ply(AfterPlies(n - 1), FoolsMatePlies[n][1], FoolsMatePlies[n][2])

FoolsMateBoard == AfterPlies(Len(FoolsMatePlies))

\* the call that completed the position: EMPTY written to the square left
LastWrite(b) ==
    LET n == CHOOSE k \in 1..Len(FoolsMatePlies) : AfterPlies(k) = b IN
    OpRec("set", FoolsMatePlies[n][1], << >>, EMPTY, "Ok", 0, FALSE, << >>)

InitDone ==
    /\ board \in {AfterPlies(n) : n \in 0..Len(FoolsMatePlies)}
    /\ moves = new_moves
    /\ pc = "client"
    /\ calls = 0
    /\ op = IF board = new THEN NewRec ELSE LastWrite(board)

NextDone ==
    \/ IsDone
    \/ Fmt
    \/ \E coord \in AllSquares : Get(coord)

SpecDone == InitDone /\ [][NextDone]_vars

(***************************************************************************)
(* Properties                                                              *)
(***************************************************************************)
\* exactly two bytes, 'a'..'h' then '1'..'8'
ValidCoordinate(c) == Len(c) = 2 /\ c[1] \in 97..104 /\ c[2] \in 49..56

\* what get_piece_at_bytes returns for each square of the two boards
SameSquare(b1, b2, sq) == get_piece_at_bytes(b1, sq) = get_piece_at_bytes(b2, sq)

\* C1: get_piece_at_bytes and set_piece_at_bytes return InvalidIndexing,
\* without a panic, for every byte sequence that is not a file 'a'..'h'
\* followed by a rank '1'..'8', and succeed for each of those 64.
C1_CoordinatesValidated ==
    op.name \in {"get", "set"} =>
        op.result = IF ValidCoordinate(op.a) THEN "Ok" ELSE "InvalidIndexing"

C1_Witness ==
    /\ op.name = "get"
    /\ Len(op.a) = 2
    /\ op.a[1] \in 97..104
    /\ op.a[2] = 48 + 9
    /\ op.result = "InvalidIndexing"

\* the standard starting position: kind and colour bit of file f, rank r
BackRank == << ROOK, KNIGHT, BISHOP, QUEEN, KING, BISHOP, KNIGHT, ROOK >>

StartPiece(f, r) ==
    CASE r = 1 -> BackRank[f]
      [] r = 2 -> PAWN
      [] r = 7 -> PAWN + BLACK
      [] r = 8 -> BackRank[f] + BLACK
      [] OTHER -> EMPTY

\* C2: on a board returned by new(), get_piece_at_bytes reports the standard
\* starting position on all 64 squares (ranks 3..6 Empty with the colour
\* bit cleared) and the move counter is 0.
C2_StartingPosition ==
    op.name = "new" =>
        /\ moves = 0
        /\ \A f \in 1..8, r \in 1..8 :
              get_piece_at_bytes(board, Sq(f, r)) =
                  [result |-> "Ok", value |-> StartPiece(f, r)]

C2_Witness ==
    /\ op.name = "new"
    /\ pc = "client"
    /\ get_piece_at_bytes(board, Sq(5, 1)).value = KING
    /\ get_piece_at_bytes(board, Sq(4, 8)).value = QUEEN + BLACK

\* the value the claim expects back: Empty is reported with colour White
Reported(p) == IF GET_NUM(p) = EMPTY THEN EMPTY ELSE p

\* C3: after set_piece_at_bytes(sq, p) succeeds, for every kind Empty..King
\* with either colour bit, get_piece_at_bytes(sq) returns p, an Empty piece
\* being reported with the colour bit cleared.
C3_RoundTrip ==
    (op.name = "set" /\ op.result = "Ok" /\ GET_NUM(op.piece) \in EMPTY..KING) =>
        get_piece_at_bytes(board, op.a) =
            [result |-> "Ok", value |-> Reported(op.piece)]

\* C4: a successful set_piece_at_bytes(sq, p) with a four-bit p leaves what
\* get_piece_at_bytes returns for every other square, and the move counter,
\* as they were.
C4_SetTouchesOneSquare ==
    [][(op'.name = "set" /\ op'.result = "Ok") =>
          /\ \A sq \in AllSquares \ {op'.a} : SameSquare(board', board, sq)
          /\ moves' = moves]_vars

C4_Witness ==
    /\ op.name = "set"
    /\ op.result = "Ok"
    /\ calls = 1
    /\ op.a = Sq(1, 1)
    /\ op.piece = QUEEN + BLACK
    /\ get_piece_at_bytes(board, Sq(1, 1)).value = QUEEN + BLACK
    /\ get_piece_at_bytes(board, Sq(2, 1)).value = 15

\* C5: every operation returns success or an error kind; no call panics.
C5_NoCallPanics ==
    /\ op.result # "Panic"
    /\ pc # "panicked"

\* a make_move call, made directly or by the prompt's move command, that
\* did not succeed
MoveFailed(o) ==
    \/ o.name = "make_move" /\ o.result # "Ok"
    \/ o.name = "command" /\ o.result \in {"InvalidIndexing", "BadMove", "Panic"}

\* C6: when make_move does not complete successfully, all 64 squares and
\* the move counter hold the values they held before the call.
C6_NoMutationOnFailure ==
    [][MoveFailed(op') =>
          /\ \A sq \in AllSquares : SameSquare(board', board, sq)
          /\ moves' = moves]_vars

\* C7: a move between two valid squares succeeds; the destination then
\* holds the piece of the source, the source is Empty, the move counter is
\* one greater and no other square changed.
C7_MoveApplied ==
    [][(/\ op'.name = "make_move"
        /\ ValidCoordinate(op'.a)
        /\ ValidCoordinate(op'.b)
        /\ op'.a # op'.b) =>
          /\ op'.result = "Ok"
          /\ get_piece_at_bytes(board', op'.b) = get_piece_at_bytes(board, op'.a)
          /\ get_piece_at_bytes(board', op'.a).value = EMPTY
          /\ moves' = moves + 1
          /\ \A sq \in AllSquares \ {op'.a, op'.b} : SameSquare(board', board, sq)]_vars

\* C8: is_done() is true once the game is over: in the position after the
\* fool's mate, is_done() returns true.
C8_DoneAfterFoolsMate ==
    (op.name = "is_done" /\ board = FoolsMateBoard) => op.done = TRUE

\* C9: after a failed command (a malformed line, a move without "->", a
\* move naming an invalid square) the loop prompts again with the board and
\* the move counter unchanged.
C9_FailedCommandReprompts ==
    [][(op'.name = "command" /\ op'.result \in {"IllegalCommand", "InvalidIndexing"}) =>
          /\ pc' = "prompt"
          /\ board' = board
          /\ moves' = moves]_vars

\* the chess symbol of a piece: U+2654..U+2659 for the White King, Queen,
\* Rook, Bishop, Knight, Pawn, U+265A..U+265F for the Black ones, a blank
\* for Empty
ChessSymbol(p) ==
    LET kind == GET_NUM(p)
        base == IF GET_COLOR(p) = 1 THEN 9818 ELSE 9812
    IN CASE kind = KING -> base
         [] kind = QUEEN -> base + 1
         [] kind = ROOK -> base + 2
         [] kind = BISHOP -> base + 3
         [] kind = KNIGHT -> base + 4
         [] kind = PAWN -> base + 5
         [] OTHER -> 32

\* the cell of column j (0 = left) on line i (0 = top) of a rendering
Cell(text, i, j) == text[i][2 * j + 2]

\* C10: the rendering has 8 lines of 8 cells, and the cell of line i,
\* column j shows the chess symbol of the kind and colour of the piece
\* get_piece_at_bytes returns for file j + 1, rank 8 - i, a blank for Empty.
C10_RenderingShowsThePieces ==
    op.name = "fmt" =>
        /\ DOMAIN op.text = 0..7
        /\ \A i \in 0..7, j \in 0..7 :
              LET p == get_piece_at_bytes(board, Sq(j + 1, 8 - i)).value IN
              GET_NUM(p) \in EMPTY..KING =>
                  /\ Len(op.text[i]) = 18
                  /\ Cell(op.text, i, j) = ChessSymbol(p)

====
